---------------------------- MODULE Spec2Model ----------------------------
(***************************************************************************)
(* A model of the store locator service of src/app.py and src/dapp.py:     *)
(* the nearby-store search, the delivery-time heuristic, and the route     *)
(* endpoint with its single shared road-network graph.                     *)
(*                                                                         *)
(* Units.  Python floats are modelled by integers in fixed units:          *)
(*   coordinates and distances   thousandths of a kilometre                *)
(*   reported 'distance'         hundredths of a kilometre (round(d, 2))   *)
(*   edge length                 tenths of a metre                         *)
(*   edge travel_time            tenths of a second                        *)
(* Python's round() is round-half-to-even on the exact value; it is        *)
(* modelled by RoundHalfEven on these integers.                            *)
(***************************************************************************)
EXTENDS Integers, Sequences, FiniteSets, TLC

VARIABLES
    variant,        \* which file serves: "app" (src/app.py) or "dapp" (src/dapp.py)
    stores_df,      \* the store catalog: a sequence of rows
    nearby,         \* the last /api/stores/nearby request and its response
    est,            \* the last estimate_delivery_time call and its result
    network_graph,  \* StoreLocator.network_graph: None or the cached graph
    pc,             \* per worker thread: position in get_store_route
    req,            \* per worker thread: the handler's local variables
    resp,           \* per worker thread: the response of its last request
    buildCount,     \* per locality: calls of initialize_graph for it (a build counter)
    served,         \* requests accepted by the worker threads so far
    waited,         \* per worker thread: time its request has spent in library calls
    files,          \* the temp/ directory of app.py: path -> file
    mreq,           \* per worker thread: the locals of a map handler
    mresp,          \* per worker thread: the response of its last map request
    geopy_strict    \* the installed geopy rejects a latitude outside [-90, 90]

vars == <<variant, stores_df, nearby, est, network_graph, pc, req, resp,
          buildCount, served, waited, files, mreq, mresp, geopy_strict>>

None == "None"

(***************************************************************************)
(* Arithmetic helpers.                                                     *)
(***************************************************************************)
Abs(x) == IF x < 0 THEN -x ELSE x

\* Python round(): nearest integer of n/d, ties to the even one (n >= 0, d > 0).
RoundHalfEven(n, d) ==
    LET q == n \div d
        r == n % d
    IN  IF 2 * r < d THEN q
        ELSE IF 2 * r > d THEN q + 1
        ELSE IF q % 2 = 0 THEN q ELSE q + 1

RECURSIVE ISqrtIn(_, _, _)
\* the largest r in lo..hi with r*r <= n, by bisection
ISqrtIn(n, lo, hi) ==
    IF lo >= hi THEN lo
    ELSE LET mid == (lo + hi + 1) \div 2
         IN  IF mid * mid <= n THEN ISqrtIn(n, mid, hi) ELSE ISqrtIn(n, lo, mid - 1)

ISqrt(n) == ISqrtIn(n, 0, 8192)

RECURSIVE SumSeq(_)
SumSeq(s) == IF s = <<>> THEN 0 ELSE Head(s) + SumSeq(Tail(s))

(***************************************************************************)
(* The store catalog (stores_df) and the inputs of the store endpoints.    *)
(***************************************************************************)
\* Number of rows of the catalog.
NumStores == 3

\* Coordinates a store or an origin may have (thousandths of a km).
StorePoints == {<<0, 0>>, <<0, 6>>, <<0, 3000>>, <<6, 1000>>}
OriginPoints == {<<0, 0>>, <<0, 6>>, <<1000, 0>>}

\* Radii a request may ask for (thousandths of a km): 0, values that are not
\* multiples of 0.01 km, and values on and off a store's exact distance.
Radii == {0, 6, 1000, 2994, 3000}

\* The default of the 'radius' query argument of /api/stores/nearby, 5 km.
DefaultRadius == 5000

Hours == 0 .. 23

\* Hours in which a nearby request may start: before and inside the peak and
\* off-peak bands.
NowHours == {4, 7, 10, 22}

\* Catalogs: NumStores rows; the row's name is made unique by its index.
Catalogs ==
    { [i \in 1 .. NumStores |->
          [Name |-> i, Latitude |-> f[i][1], Longitude |-> f[i][2]]] :
      f \in [1 .. NumStores -> StorePoints] }

(***************************************************************************)
(* StoreLocator.calculate_distance: geodesic((lat1, lon1), (lat2, lon2))   *)
(* in kilometres.  On the small region modelled the geodesic distance is   *)
(* the planar one; it is symmetric and zero exactly for equal points.      *)
(* geodesic makes a geopy Point of each pair: a longitude is normalized    *)
(* into [-180, 180); a latitude outside [-90, 90] raises ValueError in     *)
(* geopy 2 and is normalized into [-90, 90) in geopy 1.  The chart of the  *)
(* model puts 90 degrees at LatLimit and 180 degrees at LonLimit.          *)
(***************************************************************************)
LatLimit == 4000
LonLimit == 8000

\* the latitude/longitude range of a valid point
InRange(lat, lon) == Abs(lat) <= LatLimit /\ Abs(lon) <= LonLimit

\* geopy's _normalize_angle(x, limit): x modulo 2 * limit, in [-limit, limit)
normalize_angle(x, limit) == ((x + limit) % (2 * limit)) - limit

\* Point(lat, lon) raises ValueError
PointRaises(strict, lat, lon) == strict /\ Abs(lat) > LatLimit

calculate_distance(lat1, lon1, lat2, lon2) ==
    LET dx == normalize_angle(lat1, LatLimit) - normalize_angle(lat2, LatLimit)
        dy == normalize_angle(lon1, LonLimit) - normalize_angle(lon2, LonLimit)
        n == dx * dx + dy * dy
    IN  ISqrt(n)

(***************************************************************************)
(* StoreLocator.estimate_delivery_time(distance, current_time).            *)
(***************************************************************************)
PeakHours == {8, 9, 10, 17, 18, 19}
OffPeakHours == {23, 0, 1, 2, 3, 4}

\* the multiplier, in tenths
WrongMultiplier(hour) ==
    IF hour \in {8, 9, 10, 17, 18} THEN 15
    ELSE IF hour \in OffPeakHours THEN 8
    ELSE 10

Multiplier(hour) ==
    IF hour \in PeakHours THEN 15
    ELSE IF hour \in OffPeakHours THEN 8
    ELSE 10

\* base_minutes = 5 + distance * 2 (distance in km), times the multiplier,
\* rounded: ((5000 + 2 d) / 1000) * (m / 10).
estimate_delivery_time(distance, hour) ==
    RoundHalfEven((5000 + 2 * distance) * Multiplier(hour), 10000)

(***************************************************************************)
(* StoreLocator.find_nearby_stores(lat, lon, radius).  hourAt[i] is the    *)
(* hour datetime.now() shows when row i's estimate is computed.            *)
(***************************************************************************)
\* round(distance, 2): hundredths of a km
Round2(distance) == RoundHalfEven(distance, 10)

Entry(store, distance, hour) ==
    [store_name |-> store.Name,
     distance |-> Round2(distance),
     estimated_delivery_time |-> estimate_delivery_time(distance, hour),
     location |-> [lat |-> store.Latitude, lon |-> store.Longitude]]

RECURSIVE WrongInsertSorted(_, _)
\* e before the elements whose key equals e's: an unstable sort
WrongInsertSorted(e, s) ==
    IF s = <<>> THEN <<e>>
    ELSE IF Head(s).distance < e.distance
         THEN <<Head(s)>> \o WrongInsertSorted(e, Tail(s))
         ELSE <<e>> \o s

RECURSIVE InsertSorted(_, _)
\* e after every element whose key is <= e's: what a stable sort does to a
\* list that is extended in input order
InsertSorted(e, s) ==
    IF s = <<>> THEN <<e>>
    ELSE IF Head(s).distance <= e.distance
         THEN <<Head(s)>> \o InsertSorted(e, Tail(s))
         ELSE <<e>> \o s

RECURSIVE SortedByDistance(_)
\* sorted(nearby_stores, key=lambda x: x['distance'])
SortedByDistance(s) ==
    IF s = <<>> THEN <<>>
    ELSE InsertSorted(s[Len(s)], SortedByDistance(SubSeq(s, 1, Len(s) - 1)))

WrongWithinRadius(distance, radius) == distance < radius

\* the filter of the loop: distance <= radius, on the unrounded distance
WithinRadius(distance, radius) == distance <= radius

RECURSIVE NearbyLoop(_, _, _, _, _, _)
\* the for loop over stores_df.iterrows(), from row i on
NearbyLoop(df, i, lat, lon, radius, hourAt) ==
    IF i > Len(df) THEN <<>>
    ELSE LET store == df[i]
             distance == calculate_distance(lat, lon, store.Latitude, store.Longitude)
             rest == NearbyLoop(df, i + 1, lat, lon, radius, hourAt)
         IN  IF WithinRadius(distance, radius)
             THEN <<Entry(store, distance, hourAt[i])>> \o rest
             ELSE rest

find_nearby_stores(df, lat, lon, radius, hourAt) ==
    SortedByDistance(NearbyLoop(df, 1, lat, lon, radius, hourAt))

\* a search that keeps only the rows it found: self.stores_df reassigned
WrongCatalogAfterSearch(df, lat, lon, radius) ==
    SelectSeq(df, LAMBDA row :
        WithinRadius(calculate_distance(lat, lon, row.Latitude, row.Longitude), radius))

\* self.stores_df after find_nearby_stores: iterrows() hands out the rows, no
\* statement assigns to the frame or to a row
CatalogAfterSearch(df, lat, lon, radius) == df

\* find_nearby_stores raises: its first calculate_distance does (the rows of
\* the catalog are valid points)
FindRaises(df, strict, lat, lon) == df # <<>> /\ PointRaises(strict, lat, lon)

\* The hours datetime.now() can show over one call that starts in hour now:
\* the clock never goes back and at most one hour boundary passes.
HourReadings(df, now) ==
    { [i \in 1 .. Len(df) |-> IF i >= k THEN (now + 1) % 24 ELSE now] :
      k \in 1 .. Len(df) + 1 }

\* The readings of a call during which no hour boundary passes.
SteadyReadings(df, now) == { [i \in 1 .. Len(df) |-> now] }

(***************************************************************************)
(* What a page shows.                                                      *)
(***************************************************************************)
\* the route of a response or a page: its end nodes, paths and steps
NoBody == [start_node |-> 0, end_node |-> 0,
           path_time |-> <<>>, path_length |-> <<>>, steps |-> <<>>]

\* html_content: the arguments the page shows, the stores it lists and the
\* route it draws
NoHtml == [args |-> <<>>, stores |-> <<>>, route |-> NoBody]

(***************************************************************************)
(* The temp/ directory of app.py: each map endpoint writes one fixed file  *)
(* and sends it; cleanup_temp_files runs before every request.             *)
(***************************************************************************)
RoutePath == "temp/route_map.html"
Paths == {"temp/stores_map.html", RoutePath, "temp/locations_map.html"}

\* old: the file's mtime is more than an hour back; written: a handle has
\* written since the last truncation; garbled: the bytes are not one
\* handler's html_content
NoFile == [exists |-> FALSE, old |-> FALSE, written |-> FALSE,
           garbled |-> FALSE, html |-> NoHtml]

\* cleanup_temp_files: the .html files older than an hour are removed
cleanup_temp_files(dir) ==
    [p \in Paths |-> IF dir[p].exists /\ dir[p].old THEN NoFile ELSE dir[p]]

\* @app.before_request: app.py registers the cleanup, dapp.py has none
BeforeRequest ==
    files' = IF variant = "app" THEN cleanup_temp_files(files) ELSE files

\* open(file_path, 'w'): the file is created or truncated
OpenTruncate(dir, path) == [dir EXCEPT ![path] = [NoFile EXCEPT !.exists = TRUE]]

\* f.write(html_content) and the close of the with block, through a handle
\* opened before: the bytes go to the start of the file, so over bytes another
\* handle has written since, a longer html_content of which leaves its tail
WriteClose(dir, path, html, tail) ==
    [dir EXCEPT ![path] = [exists |-> TRUE, old |-> FALSE, written |-> TRUE,
                           garbled |-> tail, html |-> html]]

\* whether bytes of another html_content can remain after writing html
TailChoices(dir, path, html) ==
    IF dir[path].written /\ (dir[path].garbled \/ dir[path].html # html)
    THEN BOOLEAN ELSE {FALSE}

\* the file send_file(file_path) sends is the whole html
SendsWhole(dir, path, html) ==
    /\ dir[path].written
    /\ ~dir[path].garbled
    /\ dir[path].html = html

BuildPcs == {"fetch", "speeds", "times"}

(***************************************************************************)
(* GET /api/stores/nearby.                                                 *)
(***************************************************************************)
NoNearby == [lat |-> 0, lon |-> 0, radius |-> 0, hourAt |-> <<>>,
             code |-> 0, status |-> None, stores |-> <<>>]

\* parsed: float() accepts the 'lat' and 'lon' arguments (a missing or
\* non-numeric one raises, and the handler answers 400, as it does when
\* find_nearby_stores raises)
get_nearby_stores(parsed, lat, lon, radius, hourAt) ==
    /\ nearby' =
         IF ~parsed
         THEN [NoNearby EXCEPT !.code = 400, !.status = "error"]
         ELSE IF FindRaises(stores_df, geopy_strict, lat, lon)
         THEN [NoNearby EXCEPT !.lat = lat, !.lon = lon, !.radius = radius,
                               !.code = 400, !.status = "error"]
         ELSE [lat |-> lat, lon |-> lon, radius |-> radius, hourAt |-> hourAt,
               code |-> 200, status |-> "success",
               stores |-> find_nearby_stores(stores_df, lat, lon, radius, hourAt)]
    /\ stores_df' = IF parsed THEN CatalogAfterSearch(stores_df, lat, lon, radius)
                    ELSE stores_df
    /\ BeforeRequest
    /\ UNCHANGED <<variant, est, network_graph, pc, req, resp, buildCount, served,
                   waited, mreq, mresp, geopy_strict>>

\* A request whose arguments are drawn from the given origins, radii and
\* starting hours; the clock stands still during the call if steady, and
\* otherwise reads as HourReadings allows.
NearbyRequestOf(origins, radii, nows, steady) ==
    /\ nearby = NoNearby
    /\ \/ get_nearby_stores(FALSE, 0, 0, 0, <<>>)
       \/ \E o \in origins, radius \in radii, now \in nows :
             \E hourAt \in (IF steady THEN SteadyReadings(stores_df, now)
                                       ELSE HourReadings(stores_df, now)) :
                 get_nearby_stores(TRUE, o[1], o[2], radius, hourAt)

NearbyRequest ==
    NearbyRequestOf(OriginPoints, Radii \cup {DefaultRadius}, NowHours, FALSE)

\* Origins in and out of the latitude/longitude range: one valid, one whose
\* latitude and one whose longitude is a whole turn off it.
CoordOrigins == {<<0, 0>>, <<2 * LatLimit, 0>>, <<0, 2 * LonLimit>>}

\* a request with an origin of CoordOrigins, at noon
CoordRequest ==
    NearbyRequestOf(CoordOrigins, {0, DefaultRadius}, {12}, TRUE)

\* The client has the response; the next request can be served.
NearbyDelivered ==
    /\ nearby # NoNearby
    /\ nearby' = NoNearby
    /\ UNCHANGED <<variant, stores_df, est, network_graph, pc, req, resp,
                   buildCount, served,
                   waited, files, mreq, mresp, geopy_strict>>

(***************************************************************************)
(* Calls of estimate_delivery_time with a supplied timestamp.              *)
(***************************************************************************)
EstDistances == {0, 500, 1000, 2500, 10000}
Minutes == {0, 59}

NoCall == [distance |-> 0, hour |-> 0, minute |-> 0, result |-> -1]

\* hour = current_time.hour: the only part of the timestamp that is read
HourOf(current_time) == current_time.hour

EstimateCall ==
    \E d \in EstDistances, h \in Hours, m \in Minutes :
        /\ est' = [distance |-> d, hour |-> h, minute |-> m,
                   result |-> estimate_delivery_time(
                                 d, HourOf([hour |-> h, minute |-> m]))]
        /\ UNCHANGED <<variant, stores_df, nearby, network_graph, pc, req, resp,
                       buildCount, served,
                   waited, files, mreq, mresp, geopy_strict>>

(***************************************************************************)
(* The road-network data source behind ox.graph_from_point: the drivable   *)
(* network of each locality.  Locality "A" has parallel edges 1 -> 2 (a    *)
(* long fast road under key 0, a short slow one under key 1), a detour     *)
(* 1 -> 3 -> 2 that is the fastest way, and a node 4 with a one-way road   *)
(* into 1, not reachable from 1.  Locality "B" is a separate network, its  *)
(* road 5 -> 6 doubled by a shorter one under key 1.                       *)
(***************************************************************************)
NodeData ==
    << [x |-> 0,   y |-> 0,   loc |-> "A"],
       [x |-> 10,  y |-> 0,   loc |-> "A"],
       [x |-> 5,   y |-> 5,   loc |-> "A"],
       [x |-> 20,  y |-> 0,   loc |-> "A"],
       [x |-> 100, y |-> 100, loc |-> "B"],
       [x |-> 110, y |-> 100, loc |-> "B"] >>

AllNodes == DOMAIN NodeData

\* length in tenths of a metre, maxspeed in km/h
EdgeData ==
    { [u |-> 1, v |-> 2, key |-> 0, length |-> 3000, maxspeed |-> 54],
      [u |-> 1, v |-> 2, key |-> 1, length |-> 1000, maxspeed |-> 9],
      [u |-> 1, v |-> 3, key |-> 0, length |-> 1200, maxspeed |-> 72],
      [u |-> 3, v |-> 2, key |-> 0, length |-> 1200, maxspeed |-> 72],
      [u |-> 2, v |-> 1, key |-> 0, length |-> 3000, maxspeed |-> 54],
      [u |-> 4, v |-> 1, key |-> 0, length |-> 500,  maxspeed |-> 36],
      [u |-> 5, v |-> 6, key |-> 0, length |-> 1004, maxspeed |-> 36],
      [u |-> 5, v |-> 6, key |-> 1, length |-> 500,  maxspeed |-> 36],
      [u |-> 6, v |-> 5, key |-> 0, length |-> 1004, maxspeed |-> 36] }

Localities == {"A", "B"}

\* Points a route request may name.
UserPoints == { [lat |-> 0, lon |-> 0], [lat |-> 100, lon |-> 100] }
DestPoints == { [lat |-> 0, lon |-> 10], [lat |-> 0, lon |-> 20],
                [lat |-> 100, lon |-> 110] }

\* the locality whose network graph_from_point(center_point) downloads
Locality(p) == IF p.lon < 50 THEN "A" ELSE "B"

(***************************************************************************)
(* A graph object: the network of its build center, and which of the two   *)
(* annotations (speed_kph, travel_time) its edges carry.                   *)
(***************************************************************************)
NoGraph == [center |-> None, speeds |-> FALSE, times |-> FALSE]

RawGraph(center) == [center |-> center, speeds |-> FALSE, times |-> FALSE]

Nodes(G) == { n \in AllNodes : NodeData[n].loc = G.center }

Edges(G) == { e \in EdgeData : NodeData[e.u].loc = G.center }

\* ox.add_edge_speeds: speed_kph from the edge's maxspeed
speed_kph(e) == e.maxspeed

\* ox.add_edge_travel_times: length / (speed_kph / 3.6), tenths of a second
travel_time(e) == (e.length * 36) \div (speed_kph(e) * 10)

ParallelEdges(G, a, b) == { e \in Edges(G) : e.u = a /\ e.v = b }

\* networkx reads a weight with attr.get(weight, 1): a missing attribute is 1
EdgeWeight(G, e, weight) ==
    IF weight = "length" THEN e.length
    ELSE IF G.times THEN travel_time(e) ELSE 1

SetMin(S) == CHOOSE x \in S : \A y \in S : x <= y

\* on a multigraph the weight of a step is the minimum over its parallel edges
StepWeight(G, a, b, weight) ==
    SetMin({ EdgeWeight(G, e, weight) : e \in ParallelEdges(G, a, b) })

IsPath(G, p) ==
    /\ \A i \in DOMAIN p : p[i] \in Nodes(G)
    /\ \A i, j \in DOMAIN p : i # j => p[i] # p[j]
    /\ \A i \in 1 .. Len(p) - 1 : ParallelEdges(G, p[i], p[i + 1]) # {}

SimplePaths(G, s, t) ==
    { p \in UNION { [1 .. k -> Nodes(G)] : k \in 1 .. Cardinality(Nodes(G)) } :
        p[1] = s /\ p[Len(p)] = t /\ IsPath(G, p) }

PathWeight(G, p, weight) ==
    SumSeq([i \in 1 .. Len(p) - 1 |-> StepWeight(G, p[i], p[i + 1], weight)])

\* nx.shortest_path(G, s, t, weight): a path of minimum total weight; which
\* one among equals is the library's choice
ShortestPaths(G, s, t, weight) ==
    LET paths == SimplePaths(G, s, t)
        best == SetMin({ PathWeight(G, q, weight) : q \in paths })
    IN  { p \in paths : PathWeight(G, p, weight) = best }

\* ox.distance.nearest_nodes(G, X, Y): the node at minimum distance from
\* (X, Y), the first in node order among equals
SqDist(n, X, Y) ==
    (NodeData[n].x - X) * (NodeData[n].x - X) + (NodeData[n].y - Y) * (NodeData[n].y - Y)

nearest_nodes(G, X, Y) ==
    CHOOSE n \in Nodes(G) :
        \A m \in Nodes(G) :
            \/ SqDist(n, X, Y) < SqDist(m, X, Y)
            \/ SqDist(n, X, Y) = SqDist(m, X, Y) /\ n <= m

(***************************************************************************)
(* The loop over zip(path[:-1], path[1:]) of get_store_route (app.py) and  *)
(* of create_route_animation_data: per step the rounded length and         *)
(* travel_time of the edge (a, b, 0).                                      *)
(***************************************************************************)
Edge0(G, a, b) == { e \in ParallelEdges(G, a, b) : e.key = 0 }

\* G.edges[(a,b,0)]['length'] or [...]['travel_time'] raises KeyError
StepRaises(G, a, b) == Edge0(G, a, b) = {} \/ ~G.times

MaterializeRaises(G, path) ==
    \E i \in 1 .. Len(path) - 1 : StepRaises(G, path[i], path[i + 1])

MaterializeStep(G, a, b) ==
    LET e == CHOOSE e \in Edge0(G, a, b) : TRUE
    IN  [start |-> a, end |-> b,
         length |-> RoundHalfEven(e.length, 10),
         travel_time |-> RoundHalfEven(travel_time(e), 10)]

Materialize(G, path) ==
    [i \in 1 .. Len(path) - 1 |-> MaterializeStep(G, path[i], path[i + 1])]

(***************************************************************************)
(* GET /api/stores/route, served by concurrent worker threads that share   *)
(* store_locator.network_graph.                                            *)
(***************************************************************************)
\* Worker threads of the server.
Threads == {1, 2}

\* Route requests accepted in a run.
MaxRequests == 2

VizTypes == {"simple", "animated"}

NoPoint == [lat |-> 0, lon |-> 0]

\* parsed: the four arguments were read; late: the request tested the cache
\* slot after a build for its locality had succeeded; built: what
\* initialize_graph returned to it ("True", "False", or None when not called)
\* html: the html_content the handler has built (app.py)
NoReq == [parsed |-> FALSE, user |-> NoPoint, store |-> NoPoint,
          late |-> FALSE, built |-> None, start_node |-> 0, end_node |-> 0,
          path_time |-> <<>>, path_length |-> <<>>, html |-> NoHtml]

\* built: what initialize_graph returned during the request; own: the body
\* sent is the whole html_content this request built
NoResp == [code |-> 0, message |-> None, built |-> None, body |-> NoBody,
           own |-> TRUE]

\* the except branches of the handler
BadRequest(message) == [NoResp EXCEPT !.code = 400, !.message = message]
\* the inner except missing: NetworkXNoPath would reach the outer except
GenericNoRoute == [NoResp EXCEPT !.code = 400, !.message = "NetworkXNoPath"]

NoRoute == [NoResp EXCEPT !.code = 404, !.message = "No route found"]
\* the route a response or a page carries
Body(t, path_time, path_length, steps) ==
    [start_node |-> req[t].start_node, end_node |-> req[t].end_node,
     path_time |-> path_time, path_length |-> path_length, steps |-> steps]

Success(t, path_time, path_length, steps) ==
    [NoResp EXCEPT !.code = 200, !.body = Body(t, path_time, path_length, steps)]

\* the handler returns r: its locals are gone, the thread is free again
Respond(t, r) ==
    /\ resp' = [resp EXCEPT ![t] = [r EXCEPT !.built = req[t].built]]
    /\ req' = [req EXCEPT ![t] = NoReq]
    /\ pc' = [pc EXCEPT ![t] = "idle"]
    /\ waited' = [waited EXCEPT ![t] = 0]

\* localities for which some build has run to its end with the slot holding
\* their fully annotated graph
Succeeded(G) == IF G # NoGraph /\ G.speeds /\ G.times THEN {G.center} ELSE {}

AlwaysBuild(G) == TRUE

\* "if store_locator.network_graph is None"
NeedsBuild(G) == G = NoGraph

\* The handler up to its test of the cache slot: the arguments are parsed
\* (a missing one makes float(None) raise), then the slot is tested.
RouteBegin(t) ==
    /\ pc[t] = "idle"
    /\ served < MaxRequests
    /\ served' = served + 1
    /\ BeforeRequest
    /\ \E parsed \in BOOLEAN, user \in UserPoints, store \in DestPoints :
        /\ ~parsed => user = NoPoint /\ store = [lat |-> 0, lon |-> 10]
        /\ IF ~parsed
           THEN /\ Respond(t, BadRequest("TypeError"))
                /\ UNCHANGED buildCount
           ELSE /\ req' = [req EXCEPT ![t] =
                             [NoReq EXCEPT !.parsed = TRUE, !.user = user,
                                           !.store = store,
                                           !.late = Locality(user) \in
                                                      Succeeded(network_graph)]]
                /\ resp' = [resp EXCEPT ![t] = NoResp]
                /\ UNCHANGED waited
                /\ IF NeedsBuild(network_graph)
                   THEN /\ pc' = [pc EXCEPT ![t] = "fetch"]
                        /\ buildCount' = [buildCount EXCEPT ![Locality(user)] = @ + 1]
                   ELSE /\ pc' = [pc EXCEPT ![t] = "nearest_start"]
                        /\ UNCHANGED buildCount
    /\ UNCHANGED <<variant, stores_df, nearby, est, network_graph, mreq, mresp,
                   geopy_strict>>

\* initialize_graph returns False: the handler ignores it and goes on
BuildFailed(t) ==
    /\ req' = [req EXCEPT ![t].built = "False"]
    /\ pc' = [pc EXCEPT ![t] = "nearest_start"]

\* self.network_graph = ox.graph_from_point(center_point, ...)
Fetch(t) ==
    /\ pc[t] = "fetch"
    /\ \/ /\ network_graph' = RawGraph(Locality(req[t].user))
          /\ pc' = [pc EXCEPT ![t] = "speeds"]
          /\ UNCHANGED req
       \/ /\ BuildFailed(t)
          /\ UNCHANGED network_graph
    /\ UNCHANGED <<variant, stores_df, nearby, est, resp, buildCount, served,
                   waited, files, mreq, mresp, geopy_strict>>

\* self.network_graph = ox.add_edge_speeds(self.network_graph)
AddEdgeSpeeds(t) ==
    /\ pc[t] = "speeds"
    /\ \/ /\ network_graph' = [network_graph EXCEPT !.speeds = TRUE]
          /\ pc' = [pc EXCEPT ![t] = "times"]
          /\ UNCHANGED req
       \/ /\ BuildFailed(t)
          /\ UNCHANGED network_graph
    /\ UNCHANGED <<variant, stores_df, nearby, est, resp, buildCount, served,
                   waited, files, mreq, mresp, geopy_strict>>

\* self.network_graph = ox.add_edge_travel_times(self.network_graph); return True
\* (add_edge_travel_times raises when an edge has no speed_kph)
AddEdgeTravelTimes(t) ==
    /\ pc[t] = "times"
    /\ \/ /\ network_graph.speeds
          /\ network_graph' = [network_graph EXCEPT !.times = TRUE]
          /\ req' = [req EXCEPT ![t].built = "True"]
          /\ pc' = [pc EXCEPT ![t] = "nearest_start"]
       \/ /\ BuildFailed(t)
          /\ UNCHANGED network_graph
    /\ UNCHANGED <<variant, stores_df, nearby, est, resp, buildCount, served,
                   waited, files, mreq, mresp, geopy_strict>>

\* start_node = ox.distance.nearest_nodes(network_graph, user_lon, user_lat)
NearestStart(t) ==
    /\ pc[t] = "nearest_start"
    /\ IF network_graph = NoGraph
       THEN Respond(t, BadRequest("nearest_nodes: graph is None"))
       ELSE /\ req' = [req EXCEPT ![t].start_node =
                         nearest_nodes(network_graph, req[t].user.lon, req[t].user.lat)]
            /\ pc' = [pc EXCEPT ![t] = "nearest_end"]
            /\ UNCHANGED <<resp, waited>>
    /\ UNCHANGED <<variant, stores_df, nearby, est, network_graph, buildCount, served,
                   files, mreq, mresp, geopy_strict>>

\* end_node = ox.distance.nearest_nodes(network_graph, store_lon, store_lat)
NearestEnd(t) ==
    /\ pc[t] = "nearest_end"
    /\ req' = [req EXCEPT ![t].end_node =
                 nearest_nodes(network_graph, req[t].store.lon, req[t].store.lat)]
    /\ pc' = [pc EXCEPT ![t] = "path_time"]
    /\ UNCHANGED <<variant, stores_df, nearby, est, network_graph, resp, buildCount, served,
                   waited, files, mreq, mresp, geopy_strict>>

\* One nx.shortest_path call of thread t ending at pc value next: NodeNotFound
\* goes to the outer except, NetworkXNoPath to the inner one.
ShortestPathCall(t, weight, field, next) ==
    LET G == network_graph
        s == req[t].start_node
        e == req[t].end_node
    IN  IF s \notin Nodes(G) \/ e \notin Nodes(G)
        THEN Respond(t, BadRequest("NodeNotFound"))
        ELSE IF SimplePaths(G, s, e) = {}
        THEN Respond(t, NoRoute)
        ELSE /\ \E p \in ShortestPaths(G, s, e, weight) :
                    req' = [req EXCEPT ![t] = [@ EXCEPT ![field] = p]]
             /\ pc' = [pc EXCEPT ![t] = next]
             /\ UNCHANGED <<resp, waited>>

\* path_time = nx.shortest_path(..., weight='travel_time')
PathTime(t) ==
    /\ pc[t] = "path_time"
    /\ ShortestPathCall(t, "travel_time", "path_time",
                        IF variant = "dapp" THEN "path_length" ELSE "render")
    /\ UNCHANGED <<variant, stores_df, nearby, est, network_graph, buildCount, served,
                   files, mreq, mresp, geopy_strict>>

\* path_length = nx.shortest_path(..., weight='length')   (dapp.py only)
PathLength(t) ==
    /\ pc[t] = "path_length"
    /\ ShortestPathCall(t, "length", "path_length", "render")
    /\ UNCHANGED <<variant, stores_df, nearby, est, network_graph, buildCount, served,
                   files, mreq, mresp, geopy_strict>>

\* The rest of the try block up to the response.  app.py: the per-step loop
\* over path_time, the figure, html_content, and the open of temp/route_map.html.
\* dapp.py: the map with both polylines (network_graph.nodes of every path
\* node), for viz_type 'animated' create_route_animation_data, and the response.
Render(t) ==
    /\ pc[t] = "render"
    /\ LET G == network_graph
           pt == req[t].path_time
           pl == req[t].path_length
           nodesKnown == \A i \in DOMAIN pt : pt[i] \in Nodes(G)
           lengthNodesKnown == \A i \in DOMAIN pl : pl[i] \in Nodes(G)
       IN  IF variant = "app"
           THEN IF ~nodesKnown \/ MaterializeRaises(G, pt)
                THEN /\ Respond(t, BadRequest("KeyError"))
                     /\ UNCHANGED files
                ELSE /\ req' = [req EXCEPT ![t].html =
                                  [args |-> <<req[t].user.lat, req[t].user.lon,
                                              req[t].store.lat, req[t].store.lon>>,
                                   stores |-> <<>>,
                                   route |-> Body(t, pt, <<>>, Materialize(G, pt))]]
                     /\ files' = OpenTruncate(files, RoutePath)
                     /\ pc' = [pc EXCEPT ![t] = "write"]
                     /\ UNCHANGED <<resp, waited>>
           ELSE /\ UNCHANGED files
                /\ IF ~nodesKnown \/ ~lengthNodesKnown
                   THEN Respond(t, BadRequest("KeyError"))
                   ELSE \E viz \in VizTypes :
                           IF viz = "animated"
                           THEN IF MaterializeRaises(G, pt)
                                THEN Respond(t, BadRequest("KeyError"))
                                ELSE Respond(t, Success(t, pt, pl, Materialize(G, pt)))
                           ELSE Respond(t, Success(t, pt, pl, <<>>))
    /\ UNCHANGED <<variant, stores_df, nearby, est, network_graph, buildCount, served,
                   mreq, mresp, geopy_strict>>

\* f.write(html_content), and the with block closes the file   (app.py)
WriteFile(t) ==
    /\ pc[t] = "write"
    /\ \E tail \in TailChoices(files, RoutePath, req[t].html) :
          files' = WriteClose(files, RoutePath, req[t].html, tail)
    /\ pc' = [pc EXCEPT ![t] = "send"]
    /\ UNCHANGED <<variant, stores_df, nearby, est, network_graph, req, resp,
                   buildCount, served, waited, mreq, mresp, geopy_strict>>

\* return send_file(file_path, mimetype='text/html')   (app.py): the response
\* is what the file holds now
SendFile(t) ==
    /\ pc[t] = "send"
    /\ IF ~files[RoutePath].exists
       THEN Respond(t, BadRequest("FileNotFoundError"))
       ELSE Respond(t, [NoResp EXCEPT
                          !.code = 200,
                          !.body = files[RoutePath].html.route,
                          !.own = SendsWhole(files, RoutePath, req[t].html)])
    /\ UNCHANGED <<variant, stores_df, nearby, est, network_graph, buildCount, served,
                   files, mreq, mresp, geopy_strict>>

get_store_route(t) ==
    \/ RouteBegin(t)
    \/ Fetch(t)
    \/ AddEdgeSpeeds(t)
    \/ AddEdgeTravelTimes(t)
    \/ NearestStart(t)
    \/ NearestEnd(t)
    \/ PathTime(t)
    \/ PathLength(t)
    \/ Render(t)
    \/ WriteFile(t)
    \/ SendFile(t)

(***************************************************************************)
(* Time.  The handler reads no timeout argument and passes none to the     *)
(* library calls: while a thread is inside one of them, time passes.       *)
(***************************************************************************)
\* The bound a caller is ready to wait, in time units.
TimeoutBound == 1

\* positions inside graph construction, nearest-node resolution or
\* shortest-path computation
BlockingPcs == BuildPcs \cup {"nearest_start", "nearest_end", "path_time", "path_length"}

\* a time unit passes, for every thread that is inside a library call
\* (counted up to one unit past the bound)
Tick ==
    /\ \E t \in Threads : pc[t] \in BlockingPcs /\ waited[t] <= TimeoutBound
    /\ waited' = [t \in Threads |->
                    IF pc[t] \in BlockingPcs /\ waited[t] <= TimeoutBound
                    THEN waited[t] + 1 ELSE waited[t]]
    /\ UNCHANGED <<variant, stores_df, nearby, est, network_graph, pc, req, resp,
                   buildCount, served, files, mreq, mresp, geopy_strict>>

(***************************************************************************)
(* GET /api/stores/map and GET /api/stores/locations of app.py, served by  *)
(* the same worker threads.                                                *)
(***************************************************************************)
NoMapReq == [path |-> None, html |-> NoHtml]

\* html: what was sent; own: it is the whole html_content this request built
NoMapResp == [code |-> 0, html |-> NoHtml, own |-> TRUE]

MapPcs == {"map_write", "map_send"}

\* The default of 'radius' of /api/stores/map and of /api/stores/locations.
MapDefaultRadius == 5000
LocationsDefaultRadius == 10000

\* the endpoints of app.py that answer with a map of stores: file and radius
MapEndpoints ==
    { [path |-> "temp/stores_map.html", radius |-> MapDefaultRadius],
      [path |-> "temp/locations_map.html", radius |-> LocationsDefaultRadius] }

\* Origins of the map requests, and the hours they are made in.
MapOrigins == {<<0, 0>>, <<0, 6>>}
MapHours == {12}

\* the handler returns r
MapRespond(t, r) ==
    /\ mresp' = [mresp EXCEPT ![t] = r]
    /\ mreq' = [mreq EXCEPT ![t] = NoMapReq]
    /\ pc' = [pc EXCEPT ![t] = "idle"]

\* get_stores_map / get_all_store_locations up to the open of the file: the
\* arguments, find_nearby_stores (in create_store_map or directly), the map,
\* html_content, open(file_path, 'w')
MapBegin(t) ==
    /\ pc[t] = "idle"
    /\ variant = "app"
    /\ served < MaxRequests
    /\ served' = served + 1
    /\ \E e \in MapEndpoints, parsed \in BOOLEAN, o \in MapOrigins,
          hourAt \in UNION { SteadyReadings(stores_df, now) : now \in MapHours } :
        /\ ~parsed => o = <<0, 0>>
        /\ IF ~parsed \/ FindRaises(stores_df, geopy_strict, o[1], o[2])
           THEN /\ MapRespond(t, [NoMapResp EXCEPT !.code = 400])
                /\ BeforeRequest
                /\ UNCHANGED stores_df
           ELSE /\ mreq' = [mreq EXCEPT ![t] =
                     [path |-> e.path,
                      html |-> [args |-> <<o[1], o[2], e.radius>>,
                                stores |-> find_nearby_stores(
                                    stores_df, o[1], o[2], e.radius, hourAt),
                                route |-> NoBody]]]
                /\ mresp' = [mresp EXCEPT ![t] = NoMapResp]
                /\ stores_df' = CatalogAfterSearch(stores_df, o[1], o[2], e.radius)
                /\ files' = OpenTruncate(cleanup_temp_files(files), e.path)
                /\ pc' = [pc EXCEPT ![t] = "map_write"]
    /\ UNCHANGED <<variant, nearby, est, network_graph, req, resp, buildCount,
                   waited, geopy_strict>>

\* f.write(html_content), and the with block closes the file
MapWrite(t) ==
    /\ pc[t] = "map_write"
    /\ \E tail \in TailChoices(files, mreq[t].path, mreq[t].html) :
          files' = WriteClose(files, mreq[t].path, mreq[t].html, tail)
    /\ pc' = [pc EXCEPT ![t] = "map_send"]
    /\ UNCHANGED <<variant, stores_df, nearby, est, network_graph, req, resp,
                   buildCount, served, waited, mreq, mresp, geopy_strict>>

\* return send_file(file_path, mimetype='text/html')
MapSend(t) ==
    /\ pc[t] = "map_send"
    /\ IF ~files[mreq[t].path].exists
       THEN MapRespond(t, [NoMapResp EXCEPT !.code = 400])
       ELSE MapRespond(t, [code |-> 200,
                           html |-> files[mreq[t].path].html,
                           own |-> SendsWhole(files, mreq[t].path, mreq[t].html)])
    /\ UNCHANGED <<variant, stores_df, nearby, est, network_graph, req, resp,
                   buildCount, served, waited, files, geopy_strict>>

get_stores_map(t) ==
    \/ MapBegin(t)
    \/ MapWrite(t)
    \/ MapSend(t)

\* An hour passes over a file of temp/ that no handler is writing or sending
\* (open, write and send_file follow one another at once).
Age ==
    /\ \A t \in Threads : pc[t] \notin MapPcs \cup {"write", "send"}
    /\ \E p \in Paths :
          /\ files[p].exists /\ ~files[p].old
          /\ files' = [files EXCEPT ![p].old = TRUE]
    /\ UNCHANGED <<variant, stores_df, nearby, est, network_graph, pc, req, resp,
                   buildCount, served, waited, mreq, mresp, geopy_strict>>

\* a nearby request beside the map and route requests
MapsNearby == NearbyRequestOf({<<0, 0>>}, {0}, MapHours, TRUE)

(***************************************************************************)
(* The specifications.                                                     *)
(***************************************************************************)
\* The route endpoint of either file, with a fixed catalog.
Init ==
    /\ variant \in {"app", "dapp"}
    /\ stores_df = <<>>
    /\ nearby = NoNearby
    /\ est = NoCall
    /\ network_graph = NoGraph
    /\ pc = [t \in Threads |-> "idle"]
    /\ req = [t \in Threads |-> NoReq]
    /\ resp = [t \in Threads |-> NoResp]
    /\ buildCount = [l \in Localities |-> 0]
    /\ served = 0
    /\ waited = [t \in Threads |-> 0]
    /\ files = [p \in Paths |-> NoFile]
    /\ mreq = [t \in Threads |-> NoMapReq]
    /\ mresp = [t \in Threads |-> NoMapResp]
    /\ geopy_strict = TRUE

Next == \E t \in Threads : get_store_route(t)

Spec == Init /\ [][Next]_vars

\* The route endpoint with the time its library calls take.
NextTimeout == (\E t \in Threads : get_store_route(t)) \/ Tick

SpecTimeout == Init /\ [][NextTimeout]_vars

\* Every endpoint of app.py on the worker threads, over one catalog.
InitMaps ==
    /\ variant = "app"
    /\ stores_df = [i \in 1 .. NumStores |->
                      [Name |-> i, Latitude |-> 0, Longitude |-> 6 * (i - 1)]]
    /\ nearby = NoNearby
    /\ est = NoCall
    /\ network_graph = NoGraph
    /\ pc = [t \in Threads |-> "idle"]
    /\ req = [t \in Threads |-> NoReq]
    /\ resp = [t \in Threads |-> NoResp]
    /\ buildCount = [l \in Localities |-> 0]
    /\ served = 0
    /\ waited = [t \in Threads |-> 0]
    /\ files = [p \in Paths |-> NoFile]
    /\ mreq = [t \in Threads |-> NoMapReq]
    /\ mresp = [t \in Threads |-> NoMapResp]
    /\ geopy_strict = TRUE

\* get_store_route of app.py, which computes no path_length
get_store_route_app(t) ==
    \/ RouteBegin(t)
    \/ Fetch(t)
    \/ AddEdgeSpeeds(t)
    \/ AddEdgeTravelTimes(t)
    \/ NearestStart(t)
    \/ NearestEnd(t)
    \/ PathTime(t)
    \/ Render(t)
    \/ WriteFile(t)
    \/ SendFile(t)

NextMaps ==
    \/ \E t \in Threads : get_store_route_app(t) \/ get_stores_map(t)
    \/ MapsNearby
    \/ NearbyDelivered

SpecMaps == InitMaps /\ [][NextMaps]_vars

\* The two map endpoints and the temp/ directory over time.
NextTemp == (\E t \in Threads : get_stores_map(t)) \/ Age

SpecTemp == InitMaps /\ [][NextTemp]_vars

\* The nearby-store endpoint over every catalog (find_nearby_stores is the
\* same text in both files).
InitNearby ==
    /\ variant = "app"
    /\ stores_df \in Catalogs
    /\ nearby = NoNearby
    /\ est = NoCall
    /\ network_graph = NoGraph
    /\ pc = [t \in Threads |-> "idle"]
    /\ req = [t \in Threads |-> NoReq]
    /\ resp = [t \in Threads |-> NoResp]
    /\ buildCount = [l \in Localities |-> 0]
    /\ served = 0
    /\ waited = [t \in Threads |-> 0]
    /\ files = [p \in Paths |-> NoFile]
    /\ mreq = [t \in Threads |-> NoMapReq]
    /\ mresp = [t \in Threads |-> NoMapResp]
    /\ geopy_strict = TRUE

NextNearby == NearbyRequest \/ NearbyDelivered

SpecNearby == InitNearby /\ [][NextNearby]_vars

\* The nearby-store endpoint with origins in and out of the coordinate range,
\* under either geopy.
InitCoord ==
    /\ variant = "app"
    /\ stores_df \in Catalogs
    /\ nearby = NoNearby
    /\ est = NoCall
    /\ network_graph = NoGraph
    /\ pc = [t \in Threads |-> "idle"]
    /\ req = [t \in Threads |-> NoReq]
    /\ resp = [t \in Threads |-> NoResp]
    /\ buildCount = [l \in Localities |-> 0]
    /\ served = 0
    /\ waited = [t \in Threads |-> 0]
    /\ files = [p \in Paths |-> NoFile]
    /\ mreq = [t \in Threads |-> NoMapReq]
    /\ mresp = [t \in Threads |-> NoMapResp]
    /\ geopy_strict \in BOOLEAN

NextCoord == CoordRequest \/ NearbyDelivered

SpecCoord == InitCoord /\ [][NextCoord]_vars

\* estimate_delivery_time over its inputs.
InitEstimate ==
    /\ variant = "app"
    /\ stores_df = <<>>
    /\ nearby = NoNearby
    /\ est = NoCall
    /\ network_graph = NoGraph
    /\ pc = [t \in Threads |-> "idle"]
    /\ req = [t \in Threads |-> NoReq]
    /\ resp = [t \in Threads |-> NoResp]
    /\ buildCount = [l \in Localities |-> 0]
    /\ served = 0
    /\ waited = [t \in Threads |-> 0]
    /\ files = [p \in Paths |-> NoFile]
    /\ mreq = [t \in Threads |-> NoMapReq]
    /\ mresp = [t \in Threads |-> NoMapResp]
    /\ geopy_strict = TRUE

NextEstimate == EstimateCall

SpecEstimate == InitEstimate /\ [][NextEstimate]_vars

(***************************************************************************)
(* The nearby-store search (SpecNearby).                                   *)
(***************************************************************************)
\* the exact distance of catalog row i from the origin of the last request
RowDistance(i) ==
    calculate_distance(nearby.lat, nearby.lon,
                       stores_df[i].Latitude, stores_df[i].Longitude)

\* C1: every returned entry's reported distance (the 'distance' field, in
\* hundredths of a km) is <= the requested radius (in thousandths), and the
\* result is non-decreasing in the reported distance.
C1_ReportedWithinRadiusSorted ==
    nearby.code = 200 =>
        /\ \A i \in DOMAIN nearby.stores :
              nearby.stores[i].distance * 10 <= nearby.radius
        /\ \A i, j \in DOMAIN nearby.stores :
              i < j => nearby.stores[i].distance <= nearby.stores[j].distance

\* C5: a nearby request answers with exactly the catalog rows whose distance
\* from the origin is <= radius, each once; with radius 0 only rows at the
\* origin; and it is an error only when its arguments do not parse, so a
\* request no store qualifies for succeeds with an empty list.
C5_ExactlyStoresWithinRadius ==
    LET qualifying == { i \in DOMAIN stores_df : RowDistance(i) <= nearby.radius }
        returned == { nearby.stores[k].store_name : k \in DOMAIN nearby.stores }
    IN  /\ nearby.code = 200 =>
              /\ nearby.status = "success"
              /\ returned = qualifying
              /\ Len(nearby.stores) = Cardinality(qualifying)
              /\ \A k \in DOMAIN nearby.stores :
                    LET row == stores_df[nearby.stores[k].store_name]
                    IN  /\ nearby.stores[k].location.lat = row.Latitude
                        /\ nearby.stores[k].location.lon = row.Longitude
                        /\ nearby.radius = 0 =>
                              row.Latitude = nearby.lat /\ row.Longitude = nearby.lon
              /\ qualifying = {} => nearby.stores = <<>>
        /\ nearby.code \in {0, 200, 400}
        /\ nearby.code = 400 => nearby.hourAt = <<>>

\* a store exactly on the boundary of a positive radius is returned while
\* another row of the catalog is left out
C5_Witness ==
    /\ nearby.code = 200
    /\ nearby.radius > 0
    /\ \E i \in DOMAIN stores_df :
          /\ RowDistance(i) = nearby.radius
          /\ \E k \in DOMAIN nearby.stores : nearby.stores[k].store_name = i
    /\ Len(nearby.stores) < Len(stores_df)

\* C11: two entries of the result with equal reported distance stand in the
\* order of their rows in the catalog (store_name is the row's index).
C11_TiesInCatalogOrder ==
    nearby.code = 200 =>
        \A k, l \in DOMAIN nearby.stores :
            (k < l /\ nearby.stores[k].distance = nearby.stores[l].distance)
                => nearby.stores[k].store_name < nearby.stores[l].store_name

\* two rows tie on the reported distance and the sort has moved a later,
\* nearer row in front of them
C11_Witness ==
    /\ nearby.code = 200
    /\ \E k, l \in DOMAIN nearby.stores :
          /\ k < l
          /\ nearby.stores[k].distance = nearby.stores[l].distance
          /\ nearby.stores[k].store_name < nearby.stores[l].store_name
          /\ \E j \in DOMAIN nearby.stores :
                /\ j < k
                /\ nearby.stores[j].store_name > nearby.stores[k].store_name
                /\ nearby.stores[j].distance < nearby.stores[k].distance

\* C19: the estimates of one find_nearby_stores call are computed with one
\* hour of day, whatever the clock does during the call: two returned stores
\* at the same distance carry the same estimated delivery time, and the
\* estimates do not decrease along the distance-sorted result.
C19_OneHourPerCall ==
    nearby.code = 200 =>
        /\ \E h \in Hours :
              \A k \in DOMAIN nearby.stores :
                  nearby.stores[k].estimated_delivery_time =
                      estimate_delivery_time(RowDistance(nearby.stores[k].store_name), h)
        /\ \A k, l \in DOMAIN nearby.stores :
              RowDistance(nearby.stores[k].store_name)
                    = RowDistance(nearby.stores[l].store_name)
                  => nearby.stores[k].estimated_delivery_time
                         = nearby.stores[l].estimated_delivery_time
        /\ \A k, l \in DOMAIN nearby.stores :
              k < l => nearby.stores[k].estimated_delivery_time
                         <= nearby.stores[l].estimated_delivery_time

\* C13: a nearby request whose origin is outside the latitude/longitude
\* range is rejected (an error outcome) and returns no store.
C13_OutOfRangeRejected ==
    (nearby # NoNearby /\ ~InRange(nearby.lat, nearby.lon)) =>
        (nearby.code = 400 /\ nearby.stores = <<>>)

(***************************************************************************)
(* The delivery-time estimate (SpecEstimate).                              *)
(***************************************************************************)
\* the value the table of the claim gives: the integer nearest to
\* (5 + 2 * distance) * m, the even one of two equally near
TableEstimate(distance, hour) ==
    LET m == IF hour \in {8, 9, 10, 17, 18, 19} THEN 15
             ELSE IF hour \in {23, 0, 1, 2, 3, 4} THEN 8
             ELSE 10
        x == (5000 + 2 * distance) * m
    IN  CHOOSE r \in 0 .. 100 :
            /\ 2 * Abs(r * 10000 - x) <= 10000
            /\ 2 * Abs(r * 10000 - x) = 10000 => r % 2 = 0

\* C6: estimate_delivery_time returns round((5 + 2 * distance) * m) with m
\* by the hour table, 38 / 20 / 25 minutes for 10 km at hours 9 / 2 / 14,
\* a function of the distance and the hour of the timestamp alone.
C6_EstimateByHourTable ==
    est # NoCall =>
        /\ est.result = TableEstimate(est.distance, est.hour)
        /\ est.distance = 10000 /\ est.hour = 9 => est.result = 38
        /\ est.distance = 10000 /\ est.hour = 2 => est.result = 20
        /\ est.distance = 10000 /\ est.hour = 14 => est.result = 25

C6_Witness ==
    est.distance = 10000 /\ est.hour = 9 /\ est.minute = 59 /\ est.result = 38

(***************************************************************************)
(* The route endpoint (Spec).                                              *)
(***************************************************************************)
RECURSIVE ReachableFrom(_, _)
\* the nodes of G reachable from the set S along directed edges
ReachableFrom(G, S) ==
    LET next == S \cup { e.v : e \in { f \in Edges(G) : f.u \in S } }
    IN  IF next = S THEN S ELSE ReachableFrom(G, next)

\* C2: requests that arrive while the cache is empty start one build: no two
\* requests for the same center are inside initialize_graph together.
C2_OneBuildInFlight ==
    \A t1, t2 \in Threads :
        (/\ pc[t1] \in BuildPcs
         /\ pc[t2] \in BuildPcs
         /\ Locality(req[t1].user) = Locality(req[t2].user)) => t1 = t2

\* C3: the cache is keyed by its center: a request resolves its nodes and
\* computes its paths on a graph built for its own locality.
C3_GraphOfOwnLocality ==
    \A t \in Threads :
        pc[t] \in {"nearest_end", "path_time", "path_length", "render"} =>
            NodeData[req[t].start_node].loc = Locality(req[t].user)

\* C4: a request whose build failed answers with an outcome of its own kind,
\* not that of a success (200), of bad input (400) or of no path (404), and
\* nearest_nodes is not run on a missing graph.
C4_BuildFailureDistinct ==
    \A t \in Threads :
        /\ resp[t].built = "False" => resp[t].code \notin {200, 400, 404}
        /\ resp[t].message # "nearest_nodes: graph is None"

\* C7: a shortest-path call whose destination node is not reachable from its
\* origin node in the cached graph ends the request with 404 'No route
\* found' and no map, path or step in the body, and leaves the cache as it is.
C7_UnreachableIsNoRoute ==
    [][\A t \in Threads :
          (/\ pc[t] \in {"path_time", "path_length"}
           /\ pc'[t] # pc[t]
           /\ req[t].start_node \in Nodes(network_graph)
           /\ req[t].end_node \in Nodes(network_graph)
           /\ req[t].end_node \notin ReachableFrom(network_graph, {req[t].start_node}))
          => (/\ pc'[t] = "idle"
              /\ resp'[t].code = 404
              /\ resp'[t].message = "No route found"
              /\ resp'[t].body = NoBody
              /\ network_graph' = network_graph)]_vars

\* a request from node 1 to node 4, which has only a road into 1, was
\* answered 404
C7_Witness ==
    \E t \in Threads :
        /\ resp[t].code = 404
        /\ network_graph.center = "A"
        /\ 4 \notin ReachableFrom(network_graph, {1})

\* the total of the rounded per-step lengths G.edges[(a, b, 0)]['length']
MaterializedLength(G, path) ==
    SumSeq([i \in 1 .. Len(path) - 1 |->
              RoundHalfEven((CHOOSE e \in Edge0(G, path[i], path[i + 1]) : TRUE).length,
                            10)])

\* C8: in a successful response with both paths, the materialized length of
\* the length-optimal path is <= that of the time-optimal path.
C8_LengthPathNotLonger ==
    \A t \in Threads :
        (resp[t].code = 200 /\ resp[t].body.path_length # <<>>) =>
            LET G == RawGraph(NodeData[resp[t].body.start_node].loc)
            IN  MaterializedLength(G, resp[t].body.path_length)
                    <= MaterializedLength(G, resp[t].body.path_time)

\* C9: a successful response carries a travel_time path and a length path,
\* each from the node nearest the user to the node nearest the store.
C9_TwoPathsBetweenNearestNodes ==
    \A t \in Threads :
        resp[t].code = 200 =>
            \A p \in {resp[t].body.path_time, resp[t].body.path_length} :
                /\ p # <<>>
                /\ p[1] = resp[t].body.start_node
                /\ p[Len(p)] = resp[t].body.end_node

C12_NoWaitPastBound ==
    \A t \in Threads : pc[t] \in BlockingPcs => waited[t] <= TimeoutBound

\* positions before a nearest_nodes or shortest_path call
ReadPcs == {"nearest_start", "nearest_end", "path_time", "path_length"}

\* another thread's build has stored its graph and has not finished
\* annotating it
BuildInFlightBeside(t) ==
    /\ network_graph # NoGraph
    /\ ~(network_graph.speeds /\ network_graph.times)
    /\ \E u \in Threads \ {t} : pc[u] \in {"speeds", "times"}

\* C15: a request waits for a build in flight: no nearest_nodes or
\* shortest_path call of a request runs while the slot holds the graph another
\* request's build has stored and not yet annotated with speeds and travel
\* times.
C15_NoCallDuringBuild ==
    [][\A t \in Threads :
          (pc[t] \in ReadPcs /\ pc'[t] # pc[t]) => ~BuildInFlightBeside(t)]_vars

\* C16: with no build in flight, the slot is empty or holds a graph whose
\* edges carry speed and travel_time (a build that fails partway leaves it
\* empty, so that the next request builds again).
C16_SlotEmptyOrAnnotated ==
    (\A t \in Threads : pc[t] \notin BuildPcs) =>
        \/ network_graph = NoGraph
        \/ network_graph.speeds /\ network_graph.times

\* the parallel a -> b edges of minimum travel_time: what the search traversed
TraversedEdges(G, a, b) ==
    { e \in ParallelEdges(G, a, b) :
        \A f \in ParallelEdges(G, a, b) : travel_time(e) <= travel_time(f) }

\* C17: every materialized step of the time-optimal path carries the (rounded)
\* length and travel_time of the parallel edge the search traversed, the one
\* of minimum travel_time, so that the travel_time values sum to the optimum
\* found; and a request whose own build went through is not ended by a
\* KeyError of the materialization.
C17_StepsOfTraversedEdge ==
    \A t \in Threads :
        /\ (resp[t].code = 200 /\ resp[t].body.steps # <<>>) =>
              LET G == [RawGraph(NodeData[resp[t].body.start_node].loc)
                            EXCEPT !.speeds = TRUE, !.times = TRUE]
                  steps == resp[t].body.steps
              IN  /\ \A i \in DOMAIN steps :
                        \E e \in TraversedEdges(G, steps[i].start, steps[i].end) :
                            /\ steps[i].length = RoundHalfEven(e.length, 10)
                            /\ steps[i].travel_time = RoundHalfEven(travel_time(e), 10)
                  /\ SumSeq([i \in DOMAIN steps |-> steps[i].travel_time]) =
                        SumSeq([i \in DOMAIN steps |->
                                  RoundHalfEven(StepWeight(G, steps[i].start,
                                                           steps[i].end, "travel_time"),
                                                10)])
        /\ resp[t].built = "True" => resp[t].message # "KeyError"

(***************************************************************************)
(* The store endpoints beside the route endpoint (SpecMaps, SpecTemp).     *)
(***************************************************************************)
\* a step of the nearby-store, store-map or store-locations handler
StoreOpStep == nearby' # nearby \/ mreq' # mreq \/ mresp' # mresp

\* C14: a step of a nearby-store, store-map or store-locations request, in
\* any interleaving with the others and with route requests, leaves the
\* catalog (its rows and their number) and the graph cache slot as they were.
C14_StoreOpsLeaveCatalogAndCache ==
    [][StoreOpStep => (stores_df' = stores_df /\ network_graph' = network_graph)]_vars

\* a nearby request that leaves rows out and a map request have been answered
\* while a route request holds a built graph in the slot
C14_Witness ==
    /\ nearby.code = 200
    /\ Len(nearby.stores) < Len(stores_df)
    /\ \E t \in Threads : mresp[t].code = 200 /\ mresp[t].html.stores # <<>>
    /\ \E t \in Threads : pc[t] = "path_time"
    /\ network_graph.times
    /\ Len(stores_df) = NumStores

\* C18: the body app.py sends for a map or route request is the whole
\* html_content that request built, in every interleaving of the requests:
\* never another request's page, an empty or a mixed file.
C18_SentOwnHtml ==
    \A t \in Threads :
        /\ mresp[t].code = 200 => mresp[t].own
        /\ (variant = "app" /\ resp[t].code = 200) => resp[t].own

=============================================================================
